---- MODULE Spec2Model ----
(***************************************************************************)
(* Thermotec AeroFlow integration: the device coordinator's availability   *)
(* tracking (coordinator.py), the climate entity's commands and the        *)
(* platform setup (climate.py).                                            *)
(***************************************************************************)
EXTENDS Integers, Sequences, FiniteSets, TLC

\* ------------------------------------------------------------------ const.py
UPDATE_INTERVAL_ZONES == 30
UPDATE_INTERVAL_DEVICE == 35
MAX_CONSECUTIVE_FAILURES == 3
MAX_RETRY_BACKOFF == 120
MIN_RETRY_BACKOFF == 5

\* ------------------------------------------------------------------ bounds
\* consecutive failed polls followed per device
MaxFailures == 27

\* consecutive failed polls followed per device when several devices or an
\* entity with its commands are followed as well
MaxSharedFailures == 3

\* user commands followed in one run
MaxCommands == 2

\* zones of a gateway and modules of a zone followed through the setup
MaxEntries == 3
Entries == 1..MaxEntries
MaxZones == 2
MaxModules == 2

\* (zone, module) of the modelled heater modules
K1 == <<1, 1>>
K2 == <<1, 2>>
Keys == {K1, K2}

\* zone lists the gateway answers with (value = module count of the zone)
ZoneLists == {<< >>, <<2>>}

\* target temperatures a module reports
Temps == {18, 21}

\* _attr_target_temperature before any value was assigned (None)
NoTemp == 0

TimeoutOutcome == "timeout"
InvalidOutcome == "invalid"
ErrorOutcome == "error"
NoZonesOutcome == "no_zones"
FailureOutcomes == {TimeoutOutcome, InvalidOutcome, ErrorOutcome, NoZonesOutcome}

PRESET_HOME == "home"
PRESET_AWAY == "away"
PRESET_BOOST == "boost"
Presets == {PRESET_HOME, PRESET_AWAY, PRESET_BOOST}

\* what coordinator.data is made of: nothing yet, the dict built by
\* ThermotecDeviceCoordinator, a module data object, a HomeAssistantModuleData
DictData == "dict"
ModuleData == "ModuleData"
HomeAssistantModuleData == "HomeAssistantModuleData"
DataTypes == {DictData, ModuleData, HomeAssistantModuleData}
NoData == [type |-> "None"]

VARIABLES
    zones_data,             \* ThermotecZonesCoordinator._data
    zones_last_success,     \* ThermotecZonesCoordinator.last_update_success
    gateway_last_success,   \* ThermotecGatewayCoordinator.last_update_success
    device_coordinators,    \* keys that have a ThermotecDeviceCoordinator
    consecutive_failures,   \* _consecutive_failures, per key
    is_available,           \* _is_available
    current_retry_backoff,  \* _current_retry_backoff (seconds)
    update_interval,        \* update_interval (seconds)
    armed_interval,         \* period the refresh timer was last armed with
    data,                   \* coordinator.data
    data_type,              \* type of the objects the coordinator publishes
    last_update_success,    \* coordinator.last_update_success
    poll_pc,                \* "idle" | "fetching"
    inflight,               \* the module state the pending fetch will answer
    last_outcome,           \* outcome of the last finished poll
    prev_failures,          \* _consecutive_failures when that poll started
    recovery_logs,          \* "recovered" lines the last poll of a device logged
    device,                 \* the heater module: boost, holiday, target
    entities,               \* keys that have a ThermotecAeroflowClimateEntity
    boost_active,           \* entity._boost_active
    holiday_mode_active,    \* entity._holiday_mode_active
    attr_target_temperature,\* entity._attr_target_temperature
    attr_available,         \* entity._attr_available
    window_open_detection,  \* entity._window_open_detection
    anti_freeze_temperature,\* entity._anti_freeze_temperature
    cmd_pc,                 \* async_set_preset_mode: "idle" (never called),
                            \* "running" (between two calls), "done", "failed"
    request,                \* the running/last preset request
    calls,                  \* client calls of the running/last preset request
    command_failed,         \* a client call of some command raised
    commands_issued,        \* number of user commands so far
    setup_pc,               \* climate.async_setup_entry: "idle", "zones",
                            \* "modules", "done", "failed"
    setup_index,            \* position of the zone loop in the zone list
    setup_zone,             \* its loop variable zone
    setup_module,           \* the loop variable module
    module_count,           \* module_count of the zone loop
    identifiers,            \* (zone, module) an identifier was built for
    pending_entities,       \* the local list entities of the setup
    fetch_failing,          \* the modules whose first fetch does not answer
    identity_answers,       \* what a module answers to identity queries
    identity_queries,       \* identity queries the setup has sent
    entry_pc,               \* per config entry: where its setup or unload is
    service_registered      \* hass.services has update_date_time

coordVars == <<zones_data, zones_last_success, gateway_last_success,
               device_coordinators,
               consecutive_failures, is_available, current_retry_backoff,
               update_interval, armed_interval, data, data_type,
               last_update_success, poll_pc, inflight, last_outcome,
               prev_failures, recovery_logs>>
entityVars == <<boost_active, holiday_mode_active, attr_target_temperature,
                attr_available, window_open_detection,
                anti_freeze_temperature>>
cmdVars == <<cmd_pc, request, calls, command_failed>>
setupVars == <<setup_pc, setup_index, setup_zone, setup_module, module_count,
               identifiers, pending_entities, fetch_failing, identity_answers,
               identity_queries>>
entryVars == <<entry_pc, service_registered>>
vars == <<coordVars, device, entities, entityVars, cmdVars, commands_issued,
          setupVars, entryVars>>


\* ------------------------------------------------------------ helpers
Min(a, b) == IF a < b THEN a ELSE b
Max(a, b) == IF a > b THEN a ELSE b

RECURSIVE Pow2(_)
Pow2(n) == IF n <= 0 THEN 1 ELSE 2 * Pow2(n - 1)

\* the reading a fetch of module d returns, in the shape the coordinator
\* of d publishes
Snapshot(d) ==
    [type |-> data_type[d], boost |-> device[d].boost,
     holiday |-> device[d].holiday, target |-> device[d].target,
     window |-> device[d].window, anti_freeze |-> device[d].anti_freeze]

\* ------------------------------------------------- ThermotecZonesCoordinator
\* _async_update_data, the fetch answered
ZonesUpdateSuccess(zones) ==
    /\ zones_data' = zones
    /\ zones_last_success' = TRUE
    /\ UNCHANGED <<gateway_last_success, device_coordinators,
                   consecutive_failures, is_available,
                   current_retry_backoff, update_interval, armed_interval,
                   data, data_type, last_update_success, poll_pc, inflight,
                   last_outcome, prev_failures, recovery_logs>>
    /\ UNCHANGED <<device, entities, entityVars, cmdVars, commands_issued,
                   setupVars, entryVars>>

\* _data after a fetch that raised: the except branches do not assign it
MutZonesAfterFailure == << >>

ZonesAfterFailure == zones_data

\* _async_update_data, the fetch raised: UpdateFailed, _data is kept
ZonesUpdateFailed ==
    /\ zones_last_success' = FALSE
    /\ zones_data' = ZonesAfterFailure
    /\ UNCHANGED <<gateway_last_success, device_coordinators,
                   consecutive_failures, is_available,
                   current_retry_backoff, update_interval, armed_interval,
                   data, data_type, last_update_success, poll_pc, inflight,
                   last_outcome, prev_failures, recovery_logs>>
    /\ UNCHANGED <<device, entities, entityVars, cmdVars, commands_issued,
                   setupVars, entryVars>>

\* get_zones
get_zones == zones_data

\* ThermotecGatewayCoordinator._async_update_data, both fetches answered
GatewayUpdateSuccess ==
    /\ gateway_last_success' = TRUE
    /\ UNCHANGED <<zones_data, zones_last_success, device_coordinators,
                   consecutive_failures, is_available, current_retry_backoff,
                   update_interval, armed_interval, data, data_type,
                   last_update_success, poll_pc, inflight, last_outcome,
                   prev_failures, recovery_logs>>
    /\ UNCHANGED <<device, entities, entityVars, cmdVars, commands_issued,
                   setupVars, entryVars>>

\* ThermotecGatewayCoordinator._async_update_data, a fetch raised
GatewayUpdateFailed ==
    /\ gateway_last_success' = FALSE
    /\ UNCHANGED <<zones_data, zones_last_success, device_coordinators,
                   consecutive_failures, is_available, current_retry_backoff,
                   update_interval, armed_interval, data, data_type,
                   last_update_success, poll_pc, inflight, last_outcome,
                   prev_failures, recovery_logs>>
    /\ UNCHANGED <<device, entities, entityVars, cmdVars, commands_issued,
                   setupVars, entryVars>>

\* ------------------------------------------------ ThermotecDeviceCoordinator
\* _check_availability, given the count and the flag: the new flag
MutCheckAvailability(failures, available) ==
    IF failures > MAX_CONSECUTIVE_FAILURES /\ available THEN FALSE ELSE available

CheckAvailability(failures, available) ==
    IF failures >= MAX_CONSECUTIVE_FAILURES /\ available THEN FALSE ELSE available

\* the reset of the failure tracking after a fetch that answered
MutSuccessReset(failures, available) ==
    [failures |-> 0, backoff |-> MIN_RETRY_BACKOFF, available |-> available]

SuccessReset(failures, available) ==
    [failures |-> 0, backoff |-> MIN_RETRY_BACKOFF,
     available |-> IF ~available THEN TRUE ELSE available]

\* the "recovered and is now available" lines a fetch that answered logs
MutRecoveryLogLines(failures, available) == IF failures > 0 THEN 1 ELSE 0

RecoveryLogLines(failures, available) == IF ~available THEN 1 ELSE 0

\* async_request_refresh: the backoff it computes (and only logs)
MutBackoffSeconds(failures) == (failures - 1) * 5

BackoffSeconds(failures) == Min((failures - 1) * 5, MAX_RETRY_BACKOFF)

\* the interval of the exponential policy: min(max, min * 2^(failures - threshold))
ExponentialBackoff(failures) ==
    Min(MAX_RETRY_BACKOFF,
        MIN_RETRY_BACKOFF * Pow2(failures - MAX_CONSECUTIVE_FAILURES))

\* ------------------------------------------- ThermotecAeroflowClimateEntity
\* the entity's fields as one record
Entity(d) ==
    [boost |-> boost_active[d], holiday |-> holiday_mode_active[d],
     target |-> attr_target_temperature[d], available |-> attr_available[d],
     window |-> window_open_detection[d],
     anti_freeze |-> anti_freeze_temperature[d]]

\* _update_attributes: the fields after reading coordinator.data.  A dict
\* has no get_target_temperature: the AttributeError leaves every field
\* after _attr_available as it was.
UpdateAttributes(e, current_data) ==
    IF current_data = NoData
    THEN [e EXCEPT !.available = FALSE]
    ELSE IF current_data.type = DictData
    THEN [e EXCEPT !.available = TRUE]
    ELSE [available |-> TRUE,
          target |-> current_data.target,
          boost |-> current_data.boost,
          window |-> current_data.window,
          anti_freeze |-> IF current_data.type = HomeAssistantModuleData
                          THEN current_data.anti_freeze
                          ELSE e.anti_freeze,
          holiday |-> IF current_data.type = HomeAssistantModuleData
                      THEN current_data.holiday
                      ELSE e.holiday]

\* preset_mode, from the two flags
MutPresetMode(boost, holiday) ==
    IF holiday THEN PRESET_AWAY
    ELSE IF boost THEN PRESET_BOOST
    ELSE PRESET_HOME

PresetMode(boost, holiday) ==
    IF boost THEN PRESET_BOOST
    ELSE IF holiday THEN PRESET_AWAY
    ELSE PRESET_HOME

preset_mode(d) == PresetMode(boost_active[d], holiday_mode_active[d])

\* the entity fields of d after its listener ran on new_data; keys without
\* an entity have no listener
EntityAfterUpdate(d, new_data) ==
    IF d \in entities THEN UpdateAttributes(Entity(d), new_data) ELSE Entity(d)

\* ------------------------------------- ThermotecDeviceCoordinator, refresh
\* how far the failure count of a device is followed
FailureCap ==
    IF Cardinality(device_coordinators) > 1 \/ entities # {}
    THEN MaxSharedFailures
    ELSE MaxFailures

\* self._consecutive_failures += 1: the counter is the instance's own
MutCountedFailure(d) == [k \in Keys |-> consecutive_failures[k] + 1]

CountedFailure(d) ==
    [consecutive_failures EXCEPT ![d] = consecutive_failures[d] + 1]

\* raise UpdateFailed returns nothing: the data published before stay
MutPublishedAfterFailure(d) == NoData

PublishedAfterFailure(d) == data[d]

\* a failed poll of d: count it, check the threshold, raise UpdateFailed;
\* the timer is armed again with update_interval
PollFailed(d, outcome) ==
    /\ consecutive_failures[d] < FailureCap
    /\ consecutive_failures' = CountedFailure(d)
    /\ is_available' =
           [is_available EXCEPT
                ![d] = CheckAvailability(consecutive_failures[d] + 1,
                                         is_available[d])]
    /\ prev_failures' = [prev_failures EXCEPT ![d] = consecutive_failures[d]]
    /\ recovery_logs' = [recovery_logs EXCEPT ![d] = 0]
    /\ last_outcome' = [last_outcome EXCEPT ![d] = outcome]
    /\ last_update_success' = [last_update_success EXCEPT ![d] = FALSE]
    /\ armed_interval' = [armed_interval EXCEPT ![d] = update_interval[d]]
    /\ poll_pc' = [poll_pc EXCEPT ![d] = "idle"]
    /\ inflight' = [inflight EXCEPT ![d] = NoData]
    /\ data' = [data EXCEPT ![d] = PublishedAfterFailure(d)]
    /\ UNCHANGED <<zones_data, zones_last_success, gateway_last_success,
                   device_coordinators,
                   current_retry_backoff, update_interval, data_type>>
    /\ UNCHANGED <<device, entities, entityVars, cmdVars, commands_issued,
                   setupVars, entryVars>>

\* a coordinator refreshes unless its own previous refresh is still running
MutRefreshAllowed(d) == \A k \in device_coordinators : poll_pc[k] = "idle"

RefreshAllowed(d) == poll_pc[d] = "idle"

\* if not zones: an empty list counts as no zones (a test for None would
\* never hold, the list starts empty)
MutZonesMissing(zones) == FALSE

ZonesMissing(zones) == zones = << >>

\* _async_update_data up to its await: without zones the poll fails at
\* once, otherwise the fetch is sent
Refresh(d) ==
    /\ d \in device_coordinators
    /\ RefreshAllowed(d)
    /\ IF ZonesMissing(get_zones)
       THEN PollFailed(d, NoZonesOutcome)
       ELSE /\ poll_pc' = [poll_pc EXCEPT ![d] = "fetching"]
            /\ inflight' = [inflight EXCEPT ![d] = Snapshot(d)]
            /\ UNCHANGED <<zones_data, zones_last_success, gateway_last_success,
                           device_coordinators, consecutive_failures,
                           is_available, current_retry_backoff,
                           update_interval, armed_interval, data, data_type,
                           last_update_success, last_outcome, prev_failures, recovery_logs>>
            /\ UNCHANGED <<device, entities, entityVars, cmdVars, commands_issued,
                   setupVars, entryVars>>

\* the refresh timer of d fires
ScheduledRefresh(d) == Refresh(d)

\* async_request_refresh: the backoff is computed for the log line only,
\* then the refresh is requested
RequestRefresh(d) ==
    LET backoff_seconds ==
            IF consecutive_failures[d] > 0
            THEN BackoffSeconds(consecutive_failures[d])
            ELSE 0
    IN  /\ backoff_seconds >= 0
        /\ Refresh(d)

\* _async_update_data, get_module_data answered: reset the tracking,
\* publish the data, run the entity's listener, arm the timer again
PollSuccess(d) ==
    LET reset == SuccessReset(consecutive_failures[d], is_available[d])
        e == EntityAfterUpdate(d, inflight[d])
    IN  /\ d \in device_coordinators
        /\ poll_pc[d] = "fetching"
        /\ consecutive_failures' = [consecutive_failures EXCEPT ![d] = reset.failures]
        /\ current_retry_backoff' = [current_retry_backoff EXCEPT ![d] = reset.backoff]
        /\ is_available' = [is_available EXCEPT ![d] = reset.available]
        /\ prev_failures' = [prev_failures EXCEPT ![d] = consecutive_failures[d]]
        /\ recovery_logs' =
               [recovery_logs EXCEPT
                    ![d] = RecoveryLogLines(consecutive_failures[d],
                                            is_available[d])]
        /\ last_outcome' = [last_outcome EXCEPT ![d] = "success"]
        /\ last_update_success' = [last_update_success EXCEPT ![d] = TRUE]
        /\ data' = [data EXCEPT ![d] = inflight[d]]
        /\ armed_interval' = [armed_interval EXCEPT ![d] = update_interval[d]]
        /\ poll_pc' = [poll_pc EXCEPT ![d] = "idle"]
        /\ inflight' = [inflight EXCEPT ![d] = NoData]
        /\ boost_active' = [boost_active EXCEPT ![d] = e.boost]
        /\ holiday_mode_active' = [holiday_mode_active EXCEPT ![d] = e.holiday]
        /\ attr_target_temperature' = [attr_target_temperature EXCEPT ![d] = e.target]
        /\ attr_available' = [attr_available EXCEPT ![d] = e.available]
        /\ UNCHANGED <<zones_data, zones_last_success, gateway_last_success,
                   device_coordinators,
                       update_interval, data_type>>
        /\ window_open_detection' = [window_open_detection EXCEPT ![d] = e.window]
        /\ anti_freeze_temperature' =
               [anti_freeze_temperature EXCEPT ![d] = e.anti_freeze]
        /\ UNCHANGED <<device, entities, cmdVars, commands_issued, setupVars, entryVars>>

\* _async_update_data, get_module_data raised RequestTimeout
PollTimeout(d) ==
    /\ d \in device_coordinators
    /\ poll_pc[d] = "fetching"
    /\ PollFailed(d, TimeoutOutcome)

\* _async_update_data, get_module_data raised InvalidResponse
PollInvalidResponse(d) ==
    /\ d \in device_coordinators
    /\ poll_pc[d] = "fetching"
    /\ PollFailed(d, InvalidOutcome)

\* _async_update_data, get_module_data raised another exception
PollUnexpectedError(d) ==
    /\ d \in device_coordinators
    /\ poll_pc[d] = "fetching"
    /\ PollFailed(d, ErrorOutcome)

\* ------------------------------------------------------ the heater module
BOOST_TIMER == 95
HOLIDAY_DAYS == 240

SetTemperatureCall(temperature) ==
    [fn |-> "set_module_temperature", arg |-> temperature]
WindowCall(enabled) ==
    [fn |-> IF enabled THEN "enable_module_window_open_detection"
            ELSE "disable_module_window_open_detection",
     arg |-> 0]
AntiFreezeCall(temperature) ==
    [fn |-> "set_module_anti_freeze_temperature", arg |-> temperature]
SetBoost(minutes) == [fn |-> "set_module_boost", arg |-> minutes]
SetHoliday(days, temperature) ==
    [fn |-> "set_module_holiday_mode", arg |-> temperature, days |-> days]
DisableHoliday == [fn |-> "disable_module_holiday_mode", arg |-> 0]

\* the module after it executed a command: boost and holiday mode are two
\* independent flags of the module
DeviceAfter(dev, call) ==
    IF call.fn = "set_module_boost"
    THEN [dev EXCEPT !.boost = (call.arg > 0)]
    ELSE IF call.fn = "set_module_holiday_mode"
    THEN [dev EXCEPT !.holiday = TRUE]
    ELSE IF call.fn = "disable_module_holiday_mode"
    THEN [dev EXCEPT !.holiday = FALSE]
    ELSE IF call.fn = "set_module_temperature"
    THEN [dev EXCEPT !.target = call.arg]
    ELSE IF call.fn = "enable_module_window_open_detection"
    THEN [dev EXCEPT !.window = TRUE]
    ELSE IF call.fn = "disable_module_window_open_detection"
    THEN [dev EXCEPT !.window = FALSE]
    ELSE IF call.fn = "set_module_anti_freeze_temperature"
    THEN [dev EXCEPT !.anti_freeze = call.arg]
    ELSE dev

\* --------------------------------------------------- async_set_preset_mode
\* the client calls of one request, in order, decided by the requested
\* preset and self.preset_mode on entry; the resume temperature of the
\* holiday call is read when that call is made
MutAwayCalls(mode, temperature) ==
    <<SetHoliday(HOLIDAY_DAYS, temperature)>>
    \o (IF mode = PRESET_BOOST THEN <<SetBoost(0)>> ELSE << >>)

AwayCalls(mode, temperature) ==
    (IF mode = PRESET_BOOST THEN <<SetBoost(0)>> ELSE << >>)
    \o <<SetHoliday(HOLIDAY_DAYS, temperature)>>

MutBoostCalls(mode) ==
    <<SetBoost(BOOST_TIMER)>>
    \o (IF mode = PRESET_AWAY THEN <<DisableHoliday>> ELSE << >>)

BoostCalls(mode) ==
    (IF mode = PRESET_AWAY THEN <<DisableHoliday>> ELSE << >>)
    \o <<SetBoost(BOOST_TIMER)>>

MutHomeCalls(mode) ==
    IF mode = PRESET_BOOST THEN <<SetBoost(0)>>
    ELSE IF mode = PRESET_AWAY THEN <<DisableHoliday, SetBoost(0)>>
    ELSE << >>

HomeCalls(mode) ==
    IF mode = PRESET_BOOST THEN <<SetBoost(0)>>
    ELSE IF mode = PRESET_AWAY THEN <<DisableHoliday>>
    ELSE << >>

PresetCalls(preset, mode, temperature) ==
    IF preset = PRESET_AWAY THEN AwayCalls(mode, temperature)
    ELSE IF preset = PRESET_BOOST THEN BoostCalls(mode)
    ELSE IF preset = PRESET_HOME THEN HomeCalls(mode)
    ELSE << >>

\* where the handler is after its awaited call number position of total:
\* an exception of the call leaves the handler there and then
MutAfterCall(position, total, ok) ==
    IF position < total THEN "running"
    ELSE IF ok THEN "done" ELSE "failed"

AfterCall(position, total, ok) ==
    IF ~ok THEN "failed"
    ELSE IF position < total THEN "running" ELSE "done"

\* one awaited client call of the request req of d: the module executes
\* it, or the call raises and ends the handler.  Nothing of the entity is
\* written.
ClientCall(d, req, issued, ok) ==
    LET call == PresetCalls(req.preset, req.mode,
                            attr_target_temperature[d])[Len(issued) + 1]
        total == Len(PresetCalls(req.preset, req.mode,
                                 attr_target_temperature[d]))
    IN  /\ calls' = [calls EXCEPT ![d] = Append(issued, call)]
        /\ device' = [device EXCEPT
                          ![d] = IF ok THEN DeviceAfter(device[d], call)
                                 ELSE device[d]]
        /\ cmd_pc' = [cmd_pc EXCEPT
                          ![d] = AfterCall(Len(issued) + 1, total, ok)]
        /\ command_failed' = (command_failed \/ ~ok)

\* async_set_preset_mode from its entry to the end of its first await
SetPresetMode(d, preset) ==
    LET req == [preset |-> preset, mode |-> preset_mode(d), value |-> 0]
    IN  /\ d \in entities
        /\ cmd_pc[d] # "running"
        /\ request' = [request EXCEPT ![d] = req]
        /\ IF PresetCalls(preset, req.mode, attr_target_temperature[d]) = << >>
           THEN /\ calls' = [calls EXCEPT ![d] = << >>]
                /\ cmd_pc' = [cmd_pc EXCEPT ![d] = "done"]
                /\ UNCHANGED <<device, command_failed>>
           ELSE \E ok \in BOOLEAN : ClientCall(d, req, << >>, ok)
        /\ UNCHANGED <<coordVars, entities, entityVars, setupVars, entryVars>>

\* async_set_preset_mode, its second client call
SetPresetModeResume(d) ==
    /\ d \in entities
    /\ cmd_pc[d] = "running"
    /\ \E ok \in BOOLEAN : ClientCall(d, request[d], calls[d], ok)
    /\ UNCHANGED <<coordVars, entities, entityVars, request, setupVars, entryVars>>

\* --------------------------------------- the single-call command handlers
MIN_TEMP == 1
MAX_TEMP == 35

\* kwargs without ATTR_TEMPERATURE (kwargs.get gives None)
MissingTemperature == -1000

\* temperatures a user asks for
TempRequests == {0, 20, 50}

\* anti-freeze temperatures a user asks for
AntiFreezeRequests == {5}

\* async_set_temperature: the limiting of the target into the range
MutClampTemperature(target_temp) == Min(MIN_TEMP, Max(MAX_TEMP, target_temp))

ClampTemperature(target_temp) == Max(MIN_TEMP, Min(MAX_TEMP, target_temp))

\* async_set_temperature: its client calls
MutTemperatureCalls(target_temp) ==
    <<SetTemperatureCall(ClampTemperature(target_temp))>>

TemperatureCalls(target_temp) ==
    IF target_temp = MissingTemperature
    THEN << >>
    ELSE <<SetTemperatureCall(ClampTemperature(target_temp))>>

\* a field the handler assigns after its awaited client call: the
\* assignment is not reached when the call raised
MutAssignedAfterCall(old, new, ok) == new

AssignedAfterCall(old, new, ok) == IF ok THEN new ELSE old

\* the awaited client call of a single-call handler and the end of the
\* handler
SingleCall(d, req, call, ok) ==
    /\ d \in entities
    /\ cmd_pc[d] # "running"
    /\ request' = [request EXCEPT ![d] = req]
    /\ calls' = [calls EXCEPT ![d] = <<call>>]
    /\ device' = [device EXCEPT
                      ![d] = IF ok THEN DeviceAfter(device[d], call)
                             ELSE device[d]]
    /\ cmd_pc' = [cmd_pc EXCEPT ![d] = IF ok THEN "done" ELSE "failed"]
    /\ command_failed' = (command_failed \/ ~ok)

\* async_set_temperature
SetTemperature(d, target_temp) ==
    LET req == [preset |-> "set_temperature", mode |-> "none",
                value |-> target_temp]
        issued == TemperatureCalls(target_temp)
    IN  IF issued = << >>
        THEN /\ d \in entities
             /\ cmd_pc[d] # "running"
             /\ request' = [request EXCEPT ![d] = req]
             /\ calls' = [calls EXCEPT ![d] = << >>]
             /\ cmd_pc' = [cmd_pc EXCEPT ![d] = "done"]
             /\ UNCHANGED <<coordVars, device, entities, entityVars,
                            command_failed, setupVars, entryVars>>
        ELSE \E ok \in BOOLEAN :
                 /\ SingleCall(d, req, issued[1], ok)
                 /\ attr_target_temperature' =
                        [attr_target_temperature EXCEPT
                             ![d] = AssignedAfterCall(attr_target_temperature[d],
                                                      issued[1].arg, ok)]
                 /\ UNCHANGED <<coordVars, entities, boost_active,
                                holiday_mode_active, attr_available,
                                window_open_detection, anti_freeze_temperature,
                                setupVars, entryVars>>

\* set_window_open_detection
SetWindowOpenDetection(d, enabled) ==
    \E ok \in BOOLEAN :
        /\ SingleCall(d, [preset |-> "set_window_open_detection",
                          mode |-> "none",
                          value |-> IF enabled THEN 1 ELSE 0],
                      WindowCall(enabled), ok)
        /\ window_open_detection' =
               [window_open_detection EXCEPT
                    ![d] = AssignedAfterCall(window_open_detection[d],
                                             enabled, ok)]
        /\ UNCHANGED <<coordVars, entities, boost_active, holiday_mode_active,
                       attr_available, attr_target_temperature,
                       anti_freeze_temperature, setupVars, entryVars>>

\* set_anti_freeze_temperature
SetAntiFreezeTemperature(d, temperature) ==
    \E ok \in BOOLEAN :
        /\ SingleCall(d, [preset |-> "set_anti_freeze_temperature",
                          mode |-> "none", value |-> temperature],
                      AntiFreezeCall(temperature), ok)
        /\ anti_freeze_temperature' =
               [anti_freeze_temperature EXCEPT
                    ![d] = AssignedAfterCall(anti_freeze_temperature[d],
                                             temperature, ok)]
        /\ UNCHANGED <<coordVars, entities, boost_active, holiday_mode_active,
                       attr_available, attr_target_temperature,
                       window_open_detection, setupVars, entryVars>>

\* one more user command is followed
CountCommand ==
    /\ commands_issued < MaxCommands
    /\ commands_issued' = commands_issued + 1

\* ------------------------------------------------------------ coordinators
\* the state after the coordinators were constructed (__init__) and the
\* zones coordinator's first refresh either answered or failed
CoordInit(keys) ==
    /\ \E zones \in ZoneLists :
           /\ zones_data = zones
           /\ zones_last_success \in (IF zones = << >> THEN BOOLEAN ELSE {TRUE})
    /\ gateway_last_success = TRUE
    /\ device_coordinators = keys
    /\ consecutive_failures = [d \in Keys |-> 0]
    /\ is_available = [d \in Keys |-> TRUE]
    /\ current_retry_backoff = [d \in Keys |-> MIN_RETRY_BACKOFF]
    /\ update_interval = [d \in Keys |-> UPDATE_INTERVAL_DEVICE]
    /\ armed_interval = [d \in Keys |-> UPDATE_INTERVAL_DEVICE]
    /\ last_update_success = [d \in Keys |-> TRUE]
    /\ poll_pc = [d \in Keys |-> "idle"]
    /\ inflight = [d \in Keys |-> NoData]
    /\ last_outcome = [d \in Keys |-> "none"]
    /\ prev_failures = [d \in Keys |-> 0]
    /\ recovery_logs = [d \in Keys |-> 0]

NoCommand == [preset |-> "none", mode |-> "none", value |-> 0]

\* a module in Home mode with its factory settings
IdleModule ==
    [boost |-> FALSE, holiday |-> FALSE, target |-> 21, window |-> FALSE,
     anti_freeze |-> 0]

\* the class attributes of ThermotecAeroflowClimateEntity
FreshEntity ==
    [boost |-> FALSE, holiday |-> FALSE, target |-> NoTemp,
     available |-> FALSE, window |-> FALSE, anti_freeze |-> 0]

\* the entity fields, given for each key the record of its entity
EntityFieldsAre(e) ==
    /\ boost_active = [d \in Keys |-> e[d].boost]
    /\ holiday_mode_active = [d \in Keys |-> e[d].holiday]
    /\ attr_target_temperature = [d \in Keys |-> e[d].target]
    /\ attr_available = [d \in Keys |-> e[d].available]
    /\ window_open_detection = [d \in Keys |-> e[d].window]
    /\ anti_freeze_temperature = [d \in Keys |-> e[d].anti_freeze]

NoEntityFields == EntityFieldsAre([d \in Keys |-> FreshEntity])

\* no command was requested yet
NoCommands ==
    /\ cmd_pc = [d \in Keys |-> "idle"]
    /\ request = [d \in Keys |-> NoCommand]
    /\ calls = [d \in Keys |-> << >>]
    /\ command_failed = FALSE
    /\ commands_issued = 0

\* the config entries: entry 1 is where pc says, the others are not set up
EntriesAre(pc, registered) ==
    /\ entry_pc = [e \in Entries |-> IF e = 1 THEN pc ELSE "not_loaded"]
    /\ service_registered = registered

\* async_setup_entry of entry 1 has returned True
OneEntryLoaded == EntriesAre("loaded", TRUE)

\* the platform setup is not followed
NoSetup ==
    /\ setup_pc = "idle"
    /\ setup_index = 0
    /\ setup_zone = 0
    /\ setup_module = 0
    /\ module_count = 0
    /\ identifiers = {}
    /\ pending_entities = << >>
    /\ fetch_failing = {}
    /\ identity_answers = << >>
    /\ identity_queries = 0

Init ==
    /\ CoordInit({K1})
    /\ data_type = [d \in Keys |-> DictData]
    /\ data = [d \in Keys |-> NoData]
    /\ device = [d \in Keys |-> IdleModule]
    /\ entities = {}
    /\ NoEntityFields
    /\ NoCommands
    /\ NoSetup
    /\ OneEntryLoaded

PollNext ==
    \/ \E zones \in ZoneLists : ZonesUpdateSuccess(zones)
    \/ ZonesUpdateFailed
    \/ \E d \in Keys : ScheduledRefresh(d)
    \/ \E d \in Keys : RequestRefresh(d)
    \/ \E d \in Keys : PollSuccess(d)
    \/ \E d \in Keys : PollTimeout(d)
    \/ \E d \in Keys : PollInvalidResponse(d)
    \/ \E d \in Keys : PollUnexpectedError(d)

Next == PollNext

Spec == Init /\ [][Next]_vars

\* ------------------------------------------------------------ one entity
\* a heater in at most one mode, its coordinator and its entity after
\* ThermotecAeroflowClimateEntity.__init__ ran _update_attributes on the
\* coordinator's data (a dict there raises, so no entity exists with one)
InitPreset ==
    /\ CoordInit({K1})
    /\ zones_data # << >>
    /\ data_type \in [Keys -> DataTypes]
    /\ data_type[K2] = DictData
    /\ device \in [Keys -> [boost : BOOLEAN, holiday : BOOLEAN, target : Temps,
                             window : {FALSE}, anti_freeze : {0}]]
    /\ device[K2] = IdleModule
    /\ ~(device[K1].boost /\ device[K1].holiday)
    /\ data \in [Keys -> {NoData, Snapshot(K1)}]
    /\ data[K2] = NoData
    /\ data[K1] # NoData => data_type[K1] # DictData
    /\ entities = {K1}
    /\ EntityFieldsAre([d \in Keys |-> IF d \in entities
                                        THEN UpdateAttributes(FreshEntity, data[d])
                                        ELSE FreshEntity])
    /\ NoCommands
    /\ NoSetup
    /\ OneEntryLoaded

\* user requests interleaved with polls that answer
NextPreset ==
    \/ \E d \in Keys : ScheduledRefresh(d)
    \/ \E d \in Keys : PollSuccess(d)
    \/ \E d \in Keys, preset \in Presets :
           SetPresetMode(d, preset) /\ UNCHANGED commands_issued
    \/ \E d \in Keys : SetPresetModeResume(d) /\ UNCHANGED commands_issued

SpecPreset == InitPreset /\ [][NextPreset]_vars

\* ================================================== availability tracking
\* C1: for every device coordinator, in every reachable state, the
\* availability flag is true exactly when the consecutive-failure count is
\* below MAX_CONSECUTIVE_FAILURES (so it is still true after the 1st and the
\* 2nd consecutive failure and false from the 3rd on), and a failed poll of
\* any kind (timeout, invalid response, other error, zones missing) left
\* the count exactly one above what it was when the poll started.
AvailableIffBelowThreshold ==
    \A d \in device_coordinators :
        /\ is_available[d] <=>
               (consecutive_failures[d] < MAX_CONSECUTIVE_FAILURES)
        /\ last_outcome[d] \in FailureOutcomes =>
               consecutive_failures[d] = prev_failures[d] + 1

\* a device that answered once and was then marked unavailable by its 3rd
\* consecutive failure, an invalid response
WitnessThirdFailure ==
    \E d \in device_coordinators :
        /\ data[d] # NoData
        /\ last_outcome[d] = InvalidOutcome
        /\ prev_failures[d] = MAX_CONSECUTIVE_FAILURES - 1
        /\ consecutive_failures[d] = MAX_CONSECUTIVE_FAILURES
        /\ ~is_available[d]

\* C2: after a successful poll, whatever the failure count was before it,
\* the count is 0, the availability flag is true and the polling interval
\* (the coordinator's and the one the timer is armed with) is the base
\* device interval.
RecoveryIsImmediate ==
    \A d \in device_coordinators :
        last_outcome[d] = "success" =>
            /\ consecutive_failures[d] = 0
            /\ is_available[d]
            /\ update_interval[d] = UPDATE_INTERVAL_DEVICE
            /\ armed_interval[d] = UPDATE_INTERVAL_DEVICE

\* a success that ended a run of failures longer than the threshold
WitnessRecoveryAboveThreshold ==
    \E d \in device_coordinators :
        /\ last_outcome[d] = "success"
        /\ prev_failures[d] > MAX_CONSECUTIVE_FAILURES

\* C3: after a failed poll that brought the count to the threshold or
\* beyond, the device's polling interval is
\* min(MAX_RETRY_BACKOFF, MIN_RETRY_BACKOFF * 2^(failures - threshold)).
IntervalIsExponentialBackoff ==
    \A d \in device_coordinators :
        (/\ last_outcome[d] \in FailureOutcomes
         /\ consecutive_failures[d] >= MAX_CONSECUTIVE_FAILURES) =>
            update_interval[d] = ExponentialBackoff(consecutive_failures[d])

\* C4: the backoff kept by a device coordinator (its polling interval, its
\* retry backoff, and the backoff async_request_refresh computes once the
\* threshold is reached) lies between MIN_RETRY_BACKOFF and
\* MAX_RETRY_BACKOFF in every reachable state, and no failed poll beyond
\* the threshold makes any of them smaller.
BackoffWithin(seconds) ==
    MIN_RETRY_BACKOFF <= seconds /\ seconds <= MAX_RETRY_BACKOFF

BackoffInBounds ==
    \A d \in device_coordinators :
        /\ BackoffWithin(update_interval[d])
        /\ BackoffWithin(armed_interval[d])
        /\ BackoffWithin(current_retry_backoff[d])
        /\ consecutive_failures[d] >= MAX_CONSECUTIVE_FAILURES =>
               BackoffWithin(BackoffSeconds(consecutive_failures[d]))

BackoffStepMonotone ==
    \A d \in device_coordinators :
        (/\ consecutive_failures[d] >= MAX_CONSECUTIVE_FAILURES
         /\ consecutive_failures'[d] = consecutive_failures[d] + 1) =>
            /\ update_interval'[d] >= update_interval[d]
            /\ armed_interval'[d] >= armed_interval[d]
            /\ current_retry_backoff'[d] >= current_retry_backoff[d]
            /\ BackoffSeconds(consecutive_failures'[d]) >=
                   BackoffSeconds(consecutive_failures[d])

BackoffBoundedAndMonotone == []BackoffInBounds /\ [][BackoffStepMonotone]_vars

\* a run of failures long enough for the computed backoff to hit the ceiling
WitnessBackoffAtCeiling ==
    \E d \in device_coordinators :
        /\ last_outcome[d] \in FailureOutcomes
        /\ (consecutive_failures[d] - 1) * 5 > MAX_RETRY_BACKOFF
        /\ BackoffSeconds(consecutive_failures[d]) = MAX_RETRY_BACKOFF

\* C5: right after the failed poll that reaches the threshold, the timer of
\* the device is armed with the backoff interval computed for that failure.
TimerArmedWithBackoff ==
    \A d \in device_coordinators :
        (/\ last_outcome[d] \in FailureOutcomes
         /\ prev_failures[d] = MAX_CONSECUTIVE_FAILURES - 1
         /\ consecutive_failures[d] = MAX_CONSECUTIVE_FAILURES) =>
            armed_interval[d] = ExponentialBackoff(MAX_CONSECUTIVE_FAILURES)

\* ========================================================== preset handling
Last(seq) == seq[Len(seq)]

IsPrefix(a, b) == Len(a) <= Len(b) /\ SubSeq(b, 1, Len(a)) = a

\* a client call without the resume temperature
Shape(call) ==
    IF call.fn = "set_module_holiday_mode"
    THEN <<call.fn, call.days>>
    ELSE <<call.fn, call.arg>>

Shapes(issued) == [i \in 1..Len(issued) |-> Shape(issued[i])]

\* C6: a request Away made while the derived mode is Boost never issues
\* the holiday-enable call first: every holiday-enable call it issues comes
\* after a set_module_boost(0) call.
BoostCancelledBeforeHoliday ==
    \A d \in entities :
        (request[d].preset = PRESET_AWAY /\ request[d].mode = PRESET_BOOST) =>
            \A i \in 1..Len(calls[d]) :
                calls[d][i].fn = "set_module_holiday_mode" =>
                    /\ i > 1
                    /\ \E j \in 1..(i - 1) : calls[d][j] = SetBoost(0)

\* Boost to Away, both calls made
WitnessBoostToAway ==
    \E d \in entities :
        /\ request[d] = [preset |-> PRESET_AWAY, mode |-> PRESET_BOOST,
                         value |-> 0]
        /\ Len(calls[d]) = 2
        /\ calls[d][2].fn = "set_module_holiday_mode"

\* C7: a request Boost made while the derived mode is Away issues the
\* holiday-disable call before the set_module_boost(95) call.
HolidayDisabledBeforeBoost ==
    \A d \in entities :
        (request[d].preset = PRESET_BOOST /\ request[d].mode = PRESET_AWAY) =>
            \A i \in 1..Len(calls[d]) :
                calls[d][i].fn = "set_module_boost" =>
                    /\ calls[d][i].arg = 95
                    /\ i > 1
                    /\ \E j \in 1..(i - 1) :
                           calls[d][j].fn = "disable_module_holiday_mode"

\* Away to Boost, both calls made
WitnessAwayToBoost ==
    \E d \in entities :
        /\ request[d] = [preset |-> PRESET_BOOST, mode |-> PRESET_AWAY,
                         value |-> 0]
        /\ Len(calls[d]) = 2
        /\ calls[d][2] = SetBoost(95)

\* C8: as long as no command failed, no module has boost and holiday mode
\* active at the same time.
ModesMutuallyExclusive ==
    \A d \in entities :
        ~command_failed => ~(device[d].boost /\ device[d].holiday)

\* C9: the calls of a request are those of the transition table, in its
\* order and nothing else: at any time a prefix of the row, all of it once
\* the request is done; and a holiday-enable call carries the entity's
\* target temperature of the moment it is made.
TableRow(preset, mode) ==
    IF preset = PRESET_HOME
    THEN IF mode = PRESET_BOOST THEN << <<"set_module_boost", 0>> >>
         ELSE IF mode = PRESET_AWAY THEN << <<"disable_module_holiday_mode", 0>> >>
         ELSE << >>
    ELSE IF preset = PRESET_AWAY
    THEN IF mode = PRESET_BOOST
         THEN << <<"set_module_boost", 0>>, <<"set_module_holiday_mode", 240>> >>
         ELSE << <<"set_module_holiday_mode", 240>> >>
    ELSE IF preset = PRESET_BOOST
    THEN IF mode = PRESET_AWAY
         THEN << <<"disable_module_holiday_mode", 0>>, <<"set_module_boost", 95>> >>
         ELSE << <<"set_module_boost", 95>> >>
    ELSE << >>

CallsFollowTable ==
    \A d \in entities :
        LET row == TableRow(request[d].preset, request[d].mode)
        IN  /\ IsPrefix(Shapes(calls[d]), row)
            /\ cmd_pc[d] = "done" => Shapes(calls[d]) = row
            /\ cmd_pc[d] = "running" => Len(calls[d]) < Len(row)

HolidayCarriesTarget ==
    \A d \in entities :
        (/\ calls'[d] # calls[d]
         /\ calls'[d] # << >>
         /\ Last(calls'[d]).fn = "set_module_holiday_mode") =>
            Last(calls'[d]).arg = attr_target_temperature[d]

PresetTransitionTable == []CallsFollowTable /\ [][HolidayCarriesTarget]_vars

\* a finished Boost to Away whose holiday call carries a polled target
WitnessTableRowDone ==
    \E d \in entities :
        /\ cmd_pc[d] = "done"
        /\ request[d] = [preset |-> PRESET_AWAY, mode |-> PRESET_BOOST,
                         value |-> 0]
        /\ calls[d] = <<SetBoost(0), SetHoliday(240, attr_target_temperature[d])>>
        /\ attr_target_temperature[d] # NoTemp

\* C10: the preset mode read from an entity is Boost when its boost flag
\* is set, else Away when its holiday flag is set, else Home, for each of
\* the four combinations of the flags.
PresetModeDerivedFromFlags ==
    \A d \in entities :
        /\ (boost_active[d] /\ holiday_mode_active[d]) =>
               preset_mode(d) = PRESET_BOOST
        /\ (boost_active[d] /\ ~holiday_mode_active[d]) =>
               preset_mode(d) = PRESET_BOOST
        /\ (~boost_active[d] /\ holiday_mode_active[d]) =>
               preset_mode(d) = PRESET_AWAY
        /\ (~boost_active[d] /\ ~holiday_mode_active[d]) =>
               preset_mode(d) = PRESET_HOME

\* an entity with both flags set
WitnessBothFlags ==
    \E d \in entities : boost_active[d] /\ holiday_mode_active[d]

\* ------------------------------------------- one entity with all commands
\* a heater in Home mode, its coordinator and its entity; the zone list
\* may be missing
InitEntity ==
    /\ CoordInit({K1})
    /\ data_type \in [Keys -> DataTypes]
    /\ data_type[K2] = DictData
    /\ device = [d \in Keys |-> IdleModule]
    /\ data \in [Keys -> {NoData, Snapshot(K1)}]
    /\ data[K2] = NoData
    /\ data[K1] # NoData => data_type[K1] # DictData
    /\ entities = {K1}
    /\ EntityFieldsAre([d \in Keys |-> IF d \in entities
                                        THEN UpdateAttributes(FreshEntity, data[d])
                                        ELSE FreshEntity])
    /\ NoCommands
    /\ NoSetup
    /\ OneEntryLoaded

\* every user command, interleaved with polls that answer or find no zones
NextEntity ==
    \/ \E d \in Keys : ScheduledRefresh(d)
    \/ \E d \in Keys : PollSuccess(d)
    \/ \E d \in Keys, t \in TempRequests \cup {MissingTemperature} :
           SetTemperature(d, t) /\ CountCommand
    \/ \E d \in Keys, enabled \in BOOLEAN :
           SetWindowOpenDetection(d, enabled) /\ CountCommand
    \/ \E d \in Keys, t \in AntiFreezeRequests :
           SetAntiFreezeTemperature(d, t) /\ CountCommand
    \/ \E d \in Keys, preset \in Presets :
           SetPresetMode(d, preset) /\ CountCommand
    \/ \E d \in Keys : SetPresetModeResume(d) /\ UNCHANGED commands_issued

SpecEntity == InitEntity /\ [][NextEntity]_vars

\* -------------------------------------- one entity on a failing coordinator
\* polls of every outcome interleaved with temperature and preset requests
NextAbsorb ==
    \/ \E d \in Keys : ScheduledRefresh(d)
    \/ \E d \in Keys : PollSuccess(d)
    \/ \E d \in Keys : PollTimeout(d)
    \/ \E d \in Keys : PollInvalidResponse(d)
    \/ \E d \in Keys : PollUnexpectedError(d)
    \/ \E d \in Keys, t \in TempRequests :
           SetTemperature(d, t) /\ CountCommand
    \/ \E d \in Keys, preset \in Presets :
           SetPresetMode(d, preset) /\ CountCommand
    \/ \E d \in Keys : SetPresetModeResume(d) /\ UNCHANGED commands_issued

SpecAbsorb == InitEntity /\ [][NextAbsorb]_vars

\* ========================================================= single commands
\* the fields of the entity of d
EntityFields(d) ==
    <<boost_active[d], holiday_mode_active[d], attr_target_temperature[d],
      attr_available[d], window_open_detection[d], anti_freeze_temperature[d]>>

\* the availability state kept by the coordinator of d
AvailabilityState(d) ==
    <<consecutive_failures[d], is_available[d], update_interval[d],
      current_retry_backoff[d]>>

\* this step finishes a poll of d
PollOutcomeStep(d) ==
    /\ d \in device_coordinators
    /\ \/ poll_pc[d] = "fetching" /\ poll_pc'[d] = "idle"
       \/ /\ poll_pc[d] = "idle" /\ poll_pc'[d] = "idle"
          /\ zones_data = << >>
          /\ last_outcome'[d] = NoZonesOutcome
    /\ cmdVars' = cmdVars
    /\ commands_issued' = commands_issued

\* C11: a temperature request that carries a value issues exactly one
\* set_module_temperature call, with the value limited to [1, 35]: 35 for
\* a larger value, 1 for a smaller one, the value itself otherwise.
TemperatureIsClamped ==
    \A d \in entities :
        (/\ request[d].preset = "set_temperature"
         /\ request[d].value # MissingTemperature) =>
            /\ Len(calls[d]) = 1
            /\ calls[d][1].fn = "set_module_temperature"
            /\ calls[d][1].arg = (IF request[d].value > 35 THEN 35
                                  ELSE IF request[d].value < 1 THEN 1
                                  ELSE request[d].value)

\* 50 was requested and 35 was sent and taken over by entity and module
WitnessClampedToMax ==
    \E d \in entities :
        /\ request[d].preset = "set_temperature"
        /\ request[d].value = 50
        /\ cmd_pc[d] = "done"
        /\ calls[d] = <<SetTemperatureCall(35)>>
        /\ attr_target_temperature[d] = 35
        /\ device[d].target = 35

\* C12: a temperature request without a value issues no client call, ends
\* without an error and changes nothing of the module, the entity or the
\* coordinators.
MissingTemperatureStep(d) ==
    /\ commands_issued' # commands_issued
    /\ request'[d].preset = "set_temperature"
    /\ request'[d].value = MissingTemperature

MissingTemperatureFrame ==
    \A d \in entities :
        MissingTemperatureStep(d) =>
            /\ calls'[d] = << >>
            /\ cmd_pc'[d] = "done"
            /\ command_failed' = command_failed
            /\ device' = device
            /\ entityVars' = entityVars
            /\ coordVars' = coordVars

MissingTemperatureIsNoOp == [][MissingTemperatureFrame]_vars

\* a request without a value was handled by an entity that had a target
WitnessMissingTemperature ==
    \E d \in entities :
        /\ request[d].preset = "set_temperature"
        /\ request[d].value = MissingTemperature
        /\ cmd_pc[d] = "done"
        /\ calls[d] = << >>
        /\ attr_target_temperature[d] # NoTemp

\* C13: a client call that raises ends the handler as failed with that call
\* as its last one, issued once, and the step leaves the entity's fields
\* and the module as they were.
FailedCommandStep(d) ==
    /\ cmd_pc'[d] = "failed"
    /\ coordVars' = coordVars
    /\ commands_issued' # commands_issued \/ calls'[d] # calls[d]

FailedCommandFrame ==
    \A d \in entities :
        FailedCommandStep(d) =>
            /\ EntityFields(d)' = EntityFields(d)
            /\ device' = device
            /\ command_failed'

FailedCallNotRepeated ==
    \A d \in entities :
        /\ cmd_pc[d] = "failed" =>
               /\ calls[d] # << >>
               /\ command_failed
        /\ \A i, j \in 1..Len(calls[d]) : calls[d][i] = calls[d][j] => i = j

FailedCommandKeepsLocalValue ==
    []FailedCallNotRepeated /\ [][FailedCommandFrame]_vars

\* a temperature request failed and the entity kept another target
WitnessFailedSetTemperature ==
    \E d \in entities :
        /\ cmd_pc[d] = "failed"
        /\ request[d].preset = "set_temperature"
        /\ Len(calls[d]) = 1
        /\ attr_target_temperature[d] # calls[d][1].arg

\* C14: a failed poll leaves the module, the entity, the running or last
\* command, the published data and the intervals as they were, and a
\* temperature request can be made and is sent whatever the availability
\* flag is.
FailedPollStep(d) ==
    /\ PollOutcomeStep(d)
    /\ last_outcome'[d] \in FailureOutcomes

FailedPollFrame ==
    \A d \in device_coordinators :
        FailedPollStep(d) =>
            /\ device' = device
            /\ entityVars' = entityVars
            /\ cmdVars' = cmdVars
            /\ data' = data
            /\ update_interval' = update_interval
            /\ current_retry_backoff' = current_retry_backoff
            /\ \A k \in Keys \ {d} :
                   AvailabilityState(k)' = AvailabilityState(k)

CommandsIgnoreAvailability ==
    \A d \in entities :
        /\ cmd_pc[d] # "running" => ENABLED SetTemperature(d, 20)
        /\ (request[d].preset = "set_temperature" /\ cmd_pc[d] = "done") =>
               calls[d] # << >>

PollFailuresAbsorbed ==
    []CommandsIgnoreAvailability /\ [][FailedPollFrame]_vars

\* a temperature request went through on a device marked unavailable
WitnessCommandWhileUnavailable ==
    \E d \in entities :
        /\ ~is_available[d]
        /\ consecutive_failures[d] >= MAX_CONSECUTIVE_FAILURES
        /\ data[d] = NoData
        /\ cmd_pc[d] = "done"
        /\ calls[d] = <<SetTemperatureCall(20)>>
        /\ device[d].target = 20
        /\ attr_target_temperature[d] = 20

\* C20: the failure count, the availability flag and the intervals of a
\* device change only in a step that finishes a poll of that device, never
\* in a command step, a listener or a poll of another device.
SingleWriterStep ==
    \A d \in Keys :
        AvailabilityState(d)' # AvailabilityState(d) => PollOutcomeStep(d)

ConstructorParameters ==
    {"hass", "client", "zone", "module", "zones_coordinator"}

\* the arguments async_setup_entry passes to it
ConstructorArguments == {"hass", "client", "zone", "module", "extended_data"}

\* a call binds when every parameter gets an argument and no argument is
\* left over; otherwise it raises TypeError
ConstructorAccepts == ConstructorArguments = ConstructorParameters

\* the zone lists of the zones coordinator: position = zone, value = its
\* module count
RECURSIVE SeqsUpTo(_, _)
SeqsUpTo(S, n) ==
    IF n = 0 THEN {<< >>}
    ELSE LET shorter == SeqsUpTo(S, n - 1)
         IN  shorter \cup {Append(q, x) : q \in shorter, x \in S}

SetupZoneLists == SeqsUpTo(0..MaxModules, MaxZones)

\* the modules the gateway's zone list describes
PhysicalModules ==
    {<<z, m>> \in (1..Len(zones_data)) \X (1..MaxModules) : m <= zones_data[z]}

\* what client.get_module_count(zone=zone) leaves in module_count: the
\* count of that zone, whatever the client makes of a number that is no
\* zone, or the default 1 when the call raises
ModuleCountAnswers(zone) ==
    (IF zone \in 1..Len(zones_data) THEN {zones_data[zone]}
     ELSE 0..MaxModules) \cup {1}

\* the identity answers of a module: an all-zero identifier or a real one
Sentinel == "sentinel"
DeviceId == "identifier"
IdentityAnswerCases ==
    {<<Sentinel, Sentinel, Sentinel, Sentinel>>,
     <<Sentinel, DeviceId, DeviceId, DeviceId>>,
     <<DeviceId, DeviceId, DeviceId, DeviceId>>}

\* for zone in zones: module_count = await client.get_module_count(zone)
SetupGetModuleCount ==
    /\ setup_pc = "zones"
    /\ setup_index < Len(zones_data)
    /\ LET zone == zones_data[setup_index + 1]
       IN  /\ setup_zone' = zone
           /\ \E answer \in ModuleCountAnswers(zone) : module_count' = answer
    /\ setup_index' = setup_index + 1
    /\ setup_module' = 0
    /\ setup_pc' = "modules"
    /\ UNCHANGED <<identifiers, pending_entities, fetch_failing,
                   identity_answers, identity_queries>>
    /\ UNCHANGED <<coordVars, device, entities, entityVars, cmdVars,
                   commands_issued, entryVars>>

\* one pass of for module in range(1, module_count + 1): the identifier,
\* the coordinator, its first refresh (a failure is logged and dropped)
\* and the entity
SetupModule ==
    /\ setup_pc = "modules"
    /\ setup_module < module_count
    /\ LET module == setup_module + 1
           key == <<setup_zone, module>>
       IN  /\ setup_module' = module
           /\ identifiers' = identifiers \cup {key}
           /\ IF ConstructorAccepts
              THEN /\ device_coordinators' = device_coordinators \cup {key}
                   /\ pending_entities' = Append(pending_entities, key)
                   /\ setup_pc' = setup_pc
              ELSE /\ setup_pc' = "failed"
                   /\ UNCHANGED <<device_coordinators, pending_entities>>
    /\ UNCHANGED <<setup_index, setup_zone, module_count, fetch_failing,
                   identity_answers, identity_queries>>
    /\ UNCHANGED <<zones_data, zones_last_success, gateway_last_success,
                   consecutive_failures,
                   is_available, current_retry_backoff, update_interval,
                   armed_interval, data, data_type, last_update_success,
                   poll_pc, inflight, last_outcome, prev_failures, recovery_logs>>
    /\ UNCHANGED <<device, entities, entityVars, cmdVars, commands_issued, entryVars>>

\* the module loop of a zone is through
SetupNextZone ==
    /\ setup_pc = "modules"
    /\ setup_module >= module_count
    /\ setup_pc' = "zones"
    /\ UNCHANGED <<setup_index, setup_zone, setup_module, module_count,
                   identifiers, pending_entities, fetch_failing,
                   identity_answers, identity_queries>>
    /\ UNCHANGED <<coordVars, device, entities, entityVars, cmdVars,
                   commands_issued, entryVars>>

\* async_add_entities(entities)
SetupAddEntities ==
    /\ setup_pc = "zones"
    /\ setup_index = Len(zones_data)
    /\ entities' =
           entities \cup {pending_entities[i] : i \in 1..Len(pending_entities)}
    /\ setup_pc' = "done"
    /\ UNCHANGED <<setup_index, setup_zone, setup_module, module_count,
                   identifiers, pending_entities, fetch_failing,
                   identity_answers, identity_queries>>
    /\ UNCHANGED <<coordVars, device, entityVars, cmdVars, commands_issued, entryVars>>

\* the entry of climate.async_setup_entry: the zones coordinator has its
\* list, no device coordinator and no entity exists
InitSetup ==
    /\ zones_data \in SetupZoneLists
    /\ zones_last_success \in (IF zones_data = << >> THEN BOOLEAN ELSE {TRUE})
    /\ gateway_last_success = TRUE
    /\ device_coordinators = {}
    /\ consecutive_failures = [d \in Keys |-> 0]
    /\ is_available = [d \in Keys |-> TRUE]
    /\ current_retry_backoff = [d \in Keys |-> MIN_RETRY_BACKOFF]
    /\ update_interval = [d \in Keys |-> UPDATE_INTERVAL_DEVICE]
    /\ armed_interval = [d \in Keys |-> UPDATE_INTERVAL_DEVICE]
    /\ last_update_success = [d \in Keys |-> TRUE]
    /\ poll_pc = [d \in Keys |-> "idle"]
    /\ inflight = [d \in Keys |-> NoData]
    /\ last_outcome = [d \in Keys |-> "none"]
    /\ prev_failures = [d \in Keys |-> 0]
    /\ recovery_logs = [d \in Keys |-> 0]
    /\ data = [d \in Keys |-> NoData]
    /\ data_type = [d \in Keys |-> DictData]
    /\ device = [d \in Keys |-> IdleModule]
    /\ entities = {}
    /\ NoEntityFields
    /\ NoCommands
    /\ setup_pc = "zones"
    /\ setup_index = 0
    /\ setup_zone = 0
    /\ setup_module = 0
    /\ module_count = 0
    /\ identifiers = {}
    /\ pending_entities = << >>
    /\ fetch_failing \in {f \in SUBSET PhysicalModules : Cardinality(f) <= 1}
    /\ identity_answers \in IdentityAnswerCases
    /\ identity_queries = 0
    /\ EntriesAre("forwarding", FALSE)

NextSetup ==
    \/ SetupGetModuleCount
    \/ SetupModule
    \/ SetupNextZone
    \/ SetupAddEntities

SpecSetup == InitSetup /\ [][NextSetup]_vars

\* async_setup_entry has returned or raised
SetupEnded == setup_pc \in {"done", "failed"}

\* C15: a module gets its identifier after one to four identity queries,
\* the last of them answered with a real identifier and the ones before
\* with the sentinel; a module that answers the sentinel four times gets
\* none.
IdentityResolvedWithinFourAttempts ==
    /\ identifiers # {} =>
           /\ identity_queries \in 1..4
           /\ identity_answers[identity_queries] = DeviceId
           /\ \A i \in 1..(identity_queries - 1) :
                  identity_answers[i] = Sentinel
    /\ (\A i \in 1..4 : identity_answers[i] = Sentinel) => identifiers = {}

\* C16: the setup ends without an error and its entities are exactly the
\* modules of the zone list that identified themselves and answered the
\* first fetch; a module that did not keeps no other module out.
Discoverable ==
    IF \E i \in 1..4 : identity_answers[i] = DeviceId
    THEN PhysicalModules \ fetch_failing
    ELSE {}

DeviceSetIsWhatSucceeded ==
    SetupEnded =>
        /\ setup_pc = "done"
        /\ entities = Discoverable

\* C17: a zone with module count 0 is left out without an error, and of a
\* zone with n > 0 modules exactly the modules 1..n are taken up.
EmptyZonesExcluded ==
    SetupEnded =>
        /\ setup_pc # "failed"
        /\ identifiers = PhysicalModules
        /\ \A key \in identifiers : zones_data[key[1]] > 0

\* C18: every module of the zone list has one coordinator and one entity
\* under its (zone, module), and there is no other coordinator or entity.
OneTrackerAndEntityPerModule ==
    SetupEnded =>
        /\ device_coordinators = PhysicalModules
        /\ entities = PhysicalModules
        /\ \A i, j \in 1..Len(pending_entities) :
               pending_entities[i] = pending_entities[j] => i = j

\* ================================================================ the fleet
\* two device coordinators next to the zones and the gateway coordinator,
\* all refreshed on their own timers
InitFleet ==
    /\ CoordInit(Keys)
    /\ data_type = [d \in Keys |-> DictData]
    /\ data = [d \in Keys |-> NoData]
    /\ device = [d \in Keys |-> IdleModule]
    /\ entities = {}
    /\ NoEntityFields
    /\ NoCommands
    /\ NoSetup
    /\ OneEntryLoaded

NextFleet ==
    \/ \E zones \in ZoneLists : ZonesUpdateSuccess(zones)
    \/ ZonesUpdateFailed
    \/ GatewayUpdateSuccess
    \/ GatewayUpdateFailed
    \/ \E d \in Keys : ScheduledRefresh(d)
    \/ \E d \in Keys : PollSuccess(d)
    \/ \E d \in Keys : PollTimeout(d)
    \/ \E d \in Keys : PollInvalidResponse(d)
    \/ \E d \in Keys : PollUnexpectedError(d)

SpecFleet == InitFleet /\ [][NextFleet]_vars

\* what the coordinator of d keeps for itself
TrackerState(d) ==
    <<consecutive_failures[d], is_available[d], update_interval[d],
      armed_interval[d], current_retry_backoff[d], data[d],
      last_update_success[d], poll_pc[d], inflight[d], last_outcome[d]>>

\* C19: a step of one device's poll leaves everything the other device's
\* coordinator keeps as it was, and whatever the other devices are doing,
\* a device whose own poll is not running can start one and the zones and
\* gateway refreshes can run.
IndependentStep ==
    \A a \in device_coordinators :
        TrackerState(a)' # TrackerState(a) =>
            /\ \A b \in Keys \ {a} : TrackerState(b)' = TrackerState(b)
            /\ zones_data' = zones_data
            /\ zones_last_success' = zones_last_success
            /\ gateway_last_success' = gateway_last_success

NeverBlocked ==
    /\ \A b \in device_coordinators :
           (poll_pc[b] = "idle" /\ consecutive_failures[b] < FailureCap) =>
               ENABLED ScheduledRefresh(b)
    /\ ENABLED ZonesUpdateFailed
    /\ ENABLED GatewayUpdateFailed
    /\ ENABLED GatewayUpdateSuccess

PollingLoopsIndependent == []NeverBlocked /\ [][IndependentStep]_vars

\* one device is unavailable with a fetch under way while the other one
\* has just been polled with success and has no failure
WitnessOneFailingOneHealthy ==
    \E a, b \in device_coordinators :
        /\ a # b
        /\ ~is_available[a]
        /\ poll_pc[a] = "fetching"
        /\ is_available[b]
        /\ consecutive_failures[b] = 0
        /\ last_update_success[b]
        /\ data[b] # NoData

\* ====================================================== the entity's liveness
\* what a ThermotecDeviceCoordinator answers to: its own properties and
\* the attributes of a DataUpdateCoordinator the model reads
CoordinatorAttributes ==
    {"available", "consecutive_failures", "last_update_success", "data"}

\* ThermotecAeroflowClimateEntity.available: an and-chain evaluated from the
\* left, so coordinator.is_available is only looked up after a successful
\* update, and looking up an attribute the coordinator lacks raises
available(d) ==
    IF ~last_update_success[d] THEN "False"
    ELSE IF "is_available" \notin CoordinatorAttributes THEN "AttributeError"
    ELSE IF is_available[d] /\ attr_available[d] THEN "True"
    ELSE "False"

\* C21: an entity whose device has delivered data is reported available
\* after the first and after the second consecutive failed poll.
EntityAvailableBelowThreshold ==
    \A d \in entities :
        (/\ data[d] # NoData
         /\ consecutive_failures[d] \in 1..(MAX_CONSECUTIVE_FAILURES - 1)) =>
            available(d) = "True"

\* this step ends a command handler of d without an error
CommandSucceededStep(d) ==
    /\ cmd_pc'[d] = "done"
    /\ coordVars' = coordVars
    /\ commands_issued' # commands_issued \/ calls'[d] # calls[d]

\* C22: at the end of a command that succeeded the entity shows what was
\* asked for: the limited target temperature, the requested preset, the
\* window-open setting, the anti-freeze temperature.
OptimisticStep ==
    \A d \in entities :
        CommandSucceededStep(d) =>
            LET req == request'[d]
            IN  /\ (req.preset = "set_temperature"
                        /\ req.value # MissingTemperature) =>
                       attr_target_temperature'[d] =
                           (IF req.value > 35 THEN 35
                            ELSE IF req.value < 1 THEN 1 ELSE req.value)
                /\ req.preset \in Presets => preset_mode(d)' = req.preset
                /\ req.preset = "set_window_open_detection" =>
                       window_open_detection'[d] = (req.value = 1)
                /\ req.preset = "set_anti_freeze_temperature" =>
                       anti_freeze_temperature'[d] = req.value

LocalStateOptimisticallyUpdated == [][OptimisticStep]_vars

\* this step ends a successful poll of d whose fetch read the module as
\* it is now, with no command of d under way
ReconcilingPollStep(d) ==
    /\ poll_pc[d] = "fetching"
    /\ poll_pc'[d] = "idle"
    /\ last_outcome'[d] = "success"
    /\ inflight[d] = Snapshot(d)
    /\ cmd_pc[d] # "running"

\* C23: at the end of such a poll the entity's target temperature, boost
\* flag, holiday flag and preset mode are those of the module.
ReconciledStep ==
    \A d \in entities :
        ReconcilingPollStep(d) =>
            /\ attr_target_temperature'[d] = device[d].target
            /\ boost_active'[d] = device[d].boost
            /\ holiday_mode_active'[d] = device[d].holiday
            /\ preset_mode(d)' = PresetMode(device[d].boost, device[d].holiday)

ReconciledOnPoll == [][ReconciledStep]_vars

\* this step ends a poll of d whose fetch answered
SuccessfulPollStep(d) ==
    /\ poll_pc[d] = "fetching"
    /\ poll_pc'[d] = "idle"
    /\ last_outcome'[d] = "success"

\* C24: the successful poll of a device whose availability flag is false
\* logs the recovery once; the successful poll of a device whose flag is
\* true, whatever its failure count, logs none, and so does a failed poll.
RecoveryLogStep ==
    \A d \in device_coordinators :
        /\ SuccessfulPollStep(d) =>
               /\ ~is_available[d] => recovery_logs'[d] = 1 /\ is_available'[d]
               /\ is_available[d] => recovery_logs'[d] = 0
        /\ (PollOutcomeStep(d) /\ last_outcome'[d] \in FailureOutcomes) =>
               recovery_logs'[d] = 0

RecoveryLoggedOnce == [][RecoveryLogStep]_vars

\* the poll that ended an unavailable period logged the recovery
WitnessRecoveryLogged ==
    \E d \in device_coordinators :
        /\ recovery_logs[d] = 1
        /\ last_outcome[d] = "success"
        /\ prev_failures[d] >= MAX_CONSECUTIVE_FAILURES

\* a device poll of d gets past the zone test and sends its fetch
FetchStart(d) == Refresh(d) /\ poll_pc'[d] = "fetching"

\* C26: what get_zones returns changes only in a step in which a zone
\* fetch answered; a zone fetch that failed leaves it as it was, and
\* while the zone fetches fail a device poll still goes out with a list
\* that is not empty.
ZonesKeptStep ==
    /\ get_zones' # get_zones => zones_last_success'
    /\ ~zones_last_success' => get_zones' = get_zones

PollsUseKnownZones ==
    \A d \in device_coordinators :
        (/\ ~zones_last_success
         /\ get_zones # << >>
         /\ poll_pc[d] = "idle"
         /\ consecutive_failures[d] < FailureCap) => ENABLED FetchStart(d)

ZonesKeptOnFailure == []PollsUseKnownZones /\ [][ZonesKeptStep]_vars

\* the zone fetch has failed after a success and a device poll answered
\* with the list that was kept
WitnessZonesKept ==
    \E d \in device_coordinators :
        /\ ~zones_last_success
        /\ get_zones # << >>
        /\ last_outcome[d] = "success"
        /\ poll_pc[d] = "idle"

\* the request of d takes a cancelling and an enabling call
TwoCallRequest(req) ==
    \/ req.preset = PRESET_AWAY /\ req.mode = PRESET_BOOST
    \/ req.preset = PRESET_BOOST /\ req.mode = PRESET_AWAY

\* this step issued the cancelling call of such a request and the module
\* is still in the mode the call was to end
CancelFailedStep(d) ==
    /\ TwoCallRequest(request'[d])
    /\ calls[d] # calls'[d]
    /\ Len(calls'[d]) = 1
    /\ device' = device
    /\ \/ calls'[d][1] = SetBoost(0) /\ device[d].boost
       \/ calls'[d][1] = DisableHoliday /\ device[d].holiday

\* C27: when the cancelling call of a two-call preset change fails, the
\* handler ends as failed, the failure is reported, the module is as it
\* was, and the handler that has failed issues no further call.
CancelFailureStep ==
    \A d \in entities :
        /\ CancelFailedStep(d) =>
               /\ cmd_pc'[d] = "failed"
               /\ command_failed'
        /\ cmd_pc[d] = "failed" =>
               \/ calls'[d] = calls[d] /\ device'[d] = device[d]
               \/ request'[d] # request[d]
               \/ Len(calls'[d]) <= 1

EnablingCallNotIssuedAfterFailure == [][CancelFailureStep]_vars

\* the cancel of Boost failed on the way to Away: no holiday call went out
\* and the module is still in Boost alone
WitnessCancelFailed ==
    \E d \in entities :
        /\ request[d].preset = PRESET_AWAY
        /\ request[d].mode = PRESET_BOOST
        /\ cmd_pc[d] = "failed"
        /\ calls[d] = <<SetBoost(0)>>
        /\ device[d].boost
        /\ ~device[d].holiday

\* this step is a poll of d started while the zones coordinator has no zone
PollWithoutZonesStep(d) ==
    /\ poll_pc[d] = "idle"
    /\ get_zones = << >>
    /\ TrackerState(d)' # TrackerState(d)

\* C28: a device poll started while the zone list is empty sends no fetch
\* and is one failed poll: the count goes up by one, the flag is cleared
\* when the count reaches 3 and kept otherwise.
PollWithoutZonesCounted ==
    \A d \in device_coordinators :
        PollWithoutZonesStep(d) =>
            /\ poll_pc'[d] = "idle"
            /\ inflight'[d] = NoData
            /\ last_outcome'[d] = NoZonesOutcome
            /\ ~last_update_success'[d]
            /\ consecutive_failures'[d] = consecutive_failures[d] + 1
            /\ is_available'[d] =
                   (IF consecutive_failures[d] + 1 >= 3 THEN FALSE
                    ELSE is_available[d])

NoZonesIsAFailedPoll == [][PollWithoutZonesCounted]_vars

\* the third poll without zones has marked a device unavailable that never
\* got an answer
WitnessUnavailableWithoutZones ==
    \E d \in device_coordinators :
        /\ get_zones = << >>
        /\ last_outcome[d] = NoZonesOutcome
        /\ consecutive_failures[d] = 3
        /\ ~is_available[d]
        /\ data[d] = NoData

\* ========================================================== config entries
\* async_setup_entry and async_unload_entry of __init__.py for several
\* config entries of one Home Assistant, cut at their awaits
EntryStep(e, from, to) ==
    /\ entry_pc[e] = from
    /\ entry_pc' = [entry_pc EXCEPT ![e] = to]

EntryFrame ==
    UNCHANGED <<coordVars, device, entities, entityVars, cmdVars,
                commands_issued, setupVars>>

\* await zones_coordinator.async_config_entry_first_refresh(), an
\* exception is logged and dropped
SetupRefreshZones(e) ==
    /\ EntryStep(e, "not_loaded", "zones_refreshed")
    /\ UNCHANGED service_registered
    /\ EntryFrame

\* await gateway_coordinator.async_config_entry_first_refresh(), likewise
SetupRefreshGateway(e) ==
    /\ EntryStep(e, "zones_refreshed", "gateway_refreshed")
    /\ UNCHANGED service_registered
    /\ EntryFrame

\* hass.data[DOMAIN][entry_id] = entry_data and
\* await async_forward_entry_setups
SetupForward(e) ==
    /\ EntryStep(e, "gateway_refreshed", "forwarded")
    /\ UNCHANGED service_registered
    /\ EntryFrame

\* _register_services: registers unless has_service; return True
SetupRegisterServices(e) ==
    /\ EntryStep(e, "forwarded", "loaded")
    /\ service_registered' = (IF ~service_registered THEN TRUE
                              ELSE service_registered)
    /\ EntryFrame

\* async_unload_entry up to await async_unload_platforms
UnloadPlatforms(e) ==
    /\ EntryStep(e, "loaded", "unloading")
    /\ UNCHANGED service_registered
    /\ EntryFrame

\* async_unload_entry after the await: with unload_ok the entry's data
\* are popped and the service is removed
UnloadFinish(e, unload_ok) ==
    /\ EntryStep(e, "unloading", IF unload_ok THEN "not_loaded" ELSE "loaded")
    /\ service_registered' = (IF unload_ok THEN FALSE ELSE service_registered)
    /\ EntryFrame

InitEntries ==
    /\ CoordInit({})
    /\ data_type = [d \in Keys |-> DictData]
    /\ data = [d \in Keys |-> NoData]
    /\ device = [d \in Keys |-> IdleModule]
    /\ entities = {}
    /\ NoEntityFields
    /\ NoCommands
    /\ NoSetup
    /\ entry_pc = [e \in Entries |-> "not_loaded"]
    /\ service_registered = FALSE

NextEntries ==
    \/ \E e \in Entries : SetupRefreshZones(e)
    \/ \E e \in Entries : SetupRefreshGateway(e)
    \/ \E e \in Entries : SetupForward(e)
    \/ \E e \in Entries : SetupRegisterServices(e)
    \/ \E e \in Entries : UnloadPlatforms(e)
    \/ \E e \in Entries, unload_ok \in BOOLEAN : UnloadFinish(e, unload_ok)

SpecEntries == InitEntries /\ [][NextEntries]_vars

\* the entries whose setup has returned True and whose unload has not
\* gone through
LoadedEntries == {e \in Entries : entry_pc[e] \in {"loaded", "unloading"}}

\* C29: the update_date_time service is registered exactly when at least
\* one config entry is loaded.
ServiceRegisteredIffEntryLoaded ==
    service_registered <=> LoadedEntries # {}
====
